---- MODULE Spec2Model ----
(***************************************************************************)
(* Model of the "store" clipping tool (src/src/main.rs).                   *)
(*                                                                         *)
(* A file's content is the sequence of chunks that hash_contents reads     *)
(* from it.  A path is the sequence of characters of its file name; the    *)
(* clippings directory is one fixed directory, so a path inside it is the  *)
(* file name of the object.  do_add is a sequence of system calls; each    *)
(* system call is one step of the process that runs it, and the outcome    *)
(* of a system call that may fail is chosen by the environment.            *)
(***************************************************************************)
EXTENDS Integers, Sequences, FiniteSets, TLC

\* Bounds of the model.
MaxChunks == 1
MaxCalls == 2
MaxEntries == 3
MaxTime == 3

ChunkVals == {1}
Procs == {"p1", "p2"}

Front(s) == SubSeq(s, 1, Len(s) - 1)
Last(s) == s[Len(s)]

RECURSIVE SeqsUpTo(_, _)
SeqsUpTo(S, n) ==
  IF n = 0 THEN {<<>>}
  ELSE LET shorter == SeqsUpTo(S, n - 1)
       IN  shorter \cup {Append(s, x) : s \in shorter, x \in S}

Contents == SeqsUpTo(ChunkVals, MaxChunks)

\* Source file names given to do_add: with an extension, with the same
\* extension after a stem that has a dot, without a dot, with a trailing
\* dot, and with a leading dot only.
Names ==
  { <<"a", ".", "p">>, <<"a", ".", "b", ".", "p">>,
    <<"a">>, <<"a", ".">>, <<".", "p">> }

Sources ==
  { [kind |-> "missing", name |-> <<"a">>, content |-> <<>>],
    [kind |-> "dir", name |-> <<"a">>, content |-> <<>>] }
  \cup [kind : {"file"}, name : Names, content : Contents]

\* The sources two concurrent runs are given: one path, any content.
RacingSources ==
  [kind : {"file"}, name : {<<"a", ".", "p">>}, content : Contents]

NoSource == [kind |-> "none", name |-> <<>>, content |-> <<>>]

(***************************************************************************)
(* std::path::Path as main.rs uses it.                                     *)
(***************************************************************************)
\* Index of the last '.' of a file name, 0 when there is none.
LastDot(name) ==
  IF \E i \in 1..Len(name) : name[i] = "."
  THEN CHOOSE i \in 1..Len(name) :
         /\ name[i] = "."
         /\ \A j \in (i + 1)..Len(name) : name[j] # "."
  ELSE 0

\* Path::extension: None without a dot, None when the only dot leads the
\* name, otherwise the part after the last dot (which may be empty).
PathExtension(name) ==
  LET i == LastDot(name)
  IN  IF name = <<".", ".">> \/ i = 0 \/ i = 1
      THEN [some |-> FALSE, ext |-> <<>>]
      ELSE [some |-> TRUE, ext |-> SubSeq(name, i + 1, Len(name))]

\* Path::file_stem: the name up to the last dot, the whole name when
\* Path::extension is None.
FileStem(name) ==
  LET i == LastDot(name)
  IN  IF name = <<".", ".">> \/ i = 0 \/ i = 1
      THEN name
      ELSE SubSeq(name, 1, i - 1)

\* set_extension that appends the extension without the '.'.
SetExtensionNoDot(name, ext) == FileStem(name) \o ext

\* PathBuf::set_extension: the stem, then '.' and the extension unless the
\* extension is empty.
SetExtension(name, ext) ==
  IF ext = <<>> THEN FileStem(name)
  ELSE FileStem(name) \o <<".">> \o ext

\* do_add's `extension`: the source's extension, "" when it has none.
Extension(name) ==
  LET e == PathExtension(name)
  IN  IF e.some THEN e.ext ELSE <<>>

(***************************************************************************)
(* hash_contents: the streaming digest.  Sha512 is modelled by a           *)
(* collision-free accumulator over the chunks fed to it, one byte wide,    *)
(* rendered as two lowercase hex digits.                                   *)
(***************************************************************************)
HasherNew == 1

HasherUpdate(h, chunk) == (h * 3 + chunk) % 256

RECURSIVE HasherFeed(_, _)
HasherFeed(h, chunks) ==
  IF chunks = <<>> THEN h
  ELSE HasherFeed(HasherUpdate(h, Head(chunks)), Tail(chunks))

HexDigits ==
  <<"0", "1", "2", "3", "4", "5", "6", "7",
    "8", "9", "a", "b", "c", "d", "e", "f">>

FormatHex(byte) == <<HexDigits[(byte \div 16) + 1], HexDigits[(byte % 16) + 1]>>

\* The digest of a byte content: every chunk fed, then finalize and format.
Sha512Hex(content) == FormatHex(HasherFeed(HasherNew, content))

\* The path checks without the is_file test.
PathCheckAcceptsDir(kind) ==
  IF kind = "missing" THEN "does not exist" ELSE ""

\* The error of the two path checks at the head of hash_contents::inner,
\* "" when both pass.
PathCheck(kind) ==
  IF kind = "missing" THEN "does not exist"
  ELSE IF kind # "file" THEN "is not a file"
  ELSE ""

\* The digest the read loop produces when it leaves the loop after `cnt`
\* chunks: at end of file (cnt = Len(content)) or at the first failed read.
ReadLoopDigest(content, cnt) ==
  FormatHex(HasherFeed(HasherNew, SubSeq(content, 1, cnt)))

(***************************************************************************)
(* do_add's target and its existence check.                                *)
(***************************************************************************)
\* clippings_dir.join(hash) with the extension set.
Target(hash, extension) == SetExtension(hash, extension)

\* An existence check that never finds the target.
IsFileNever(fs, path) == FALSE

\* target.is_file()
IsFile(fs, path) == path \in DOMAIN fs

\* A branch that copies whether or not the target exists.
AfterCheckAlwaysCopy(exists) == "copy"

\* The branch at the existence check: skip the copy or do it.
AfterCheck(exists) == IF exists THEN "clip" ELSE "copy"

(***************************************************************************)
(* most_recent_file.  A directory is its entries in iteration order; an    *)
(* entry is named by its position and has a kind and a modification time.  *)
(***************************************************************************)
Entries == [kind : {"file", "dir"}, mtime : 1..MaxTime]

Directories ==
  {[exists |-> FALSE, entries |-> <<>>]}
  \cup {[exists |-> TRUE, entries |-> es] : es \in SeqsUpTo(Entries, MaxEntries)}

\* The loop over read_dir: the positions of the entries that are files.
RECURSIVE RegularFiles(_, _)
RegularFiles(entries, i) ==
  IF i > Len(entries) THEN <<>>
  ELSE IF entries[i].kind = "file"
       THEN <<i>> \o RegularFiles(entries, i + 1)
       ELSE RegularFiles(entries, i + 1)

\* One element put into a sorted sequence, after the elements whose key
\* is not greater: the sort is stable.
RECURSIVE InsertByKey(_, _, _)
InsertByKey(sorted, x, entries) ==
  IF sorted = <<>> THEN <<x>>
  ELSE IF entries[Last(sorted)].mtime <= entries[x].mtime
       THEN Append(sorted, x)
       ELSE Append(InsertByKey(Front(sorted), x, entries), Last(sorted))

\* files.sort_by_key(modified)
RECURSIVE SortByKey(_, _)
SortByKey(paths, entries) ==
  IF paths = <<>> THEN <<>>
  ELSE InsertByKey(SortByKey(Front(paths), entries), Last(paths), entries)

MrfOk(i) == [tag |-> "Ok", err |-> "", idx |-> i]
MrfErr(msg) == [tag |-> "Err", err |-> msg, idx |-> 0]

\* most_recent_file taking the first of the sorted files.
MostRecentFileTakesFirst(dir) ==
  IF ~dir.exists THEN MrfErr("listing directory")
  ELSE LET sorted == SortByKey(RegularFiles(dir.entries, 1), dir.entries)
       IN  IF sorted = <<>> THEN MrfErr("getting last file")
           ELSE MrfOk(Head(sorted))

\* most_recent_file: read_dir, keep the files, sort by modification time,
\* take the last.
MostRecentFile(dir) ==
  IF ~dir.exists THEN MrfErr("listing directory")
  ELSE LET sorted == SortByKey(RegularFiles(dir.entries, 1), dir.entries)
       IN  IF sorted = <<>> THEN MrfErr("getting last file")
           ELSE MrfOk(Last(sorted))

VARIABLES
  procs,       \* the processes that run the program
  inputs,      \* the sources the program may be run on
  dirExists,   \* the clippings directory exists
  files,       \* the regular files of the clippings directory: name -> content
  writes,      \* name -> number of copies that wrote to that name
  calls,       \* number of do_add calls started
  log,         \* the do_add calls that returned Ok
  local,       \* per process: position in do_add and its local variables
  scrDir,      \* the screenshot directory given to most_recent_file
  mrf          \* the result of most_recent_file

vars == <<procs, inputs, dirExists, files, writes, calls, log, local, scrDir, mrf>>

NoResult == [tag |-> "none", err |-> "", path |-> <<>>]
Ok(path) == [tag |-> "Ok", err |-> "", path |-> path]
Err(msg) == [tag |-> "Err", err |-> msg, path |-> <<>>]

Snapshot == [dirExists |-> dirExists, files |-> files, writes |-> writes]

Idle ==
  [pc |-> "idle", src |-> NoSource, hash |-> <<>>, nread |-> 0,
   extension |-> <<>>, target |-> <<>>, exists |-> FALSE, copied |-> "no",
   clip |-> "none", res |-> NoResult,
   pre |-> [dirExists |-> FALSE, files |-> <<>>, writes |-> <<>>]]

NoDir == [exists |-> FALSE, entries |-> <<>>]
NoMrf == [tag |-> "none", err |-> "", idx |-> 0]

StoreInit ==
  /\ dirExists \in BOOLEAN
  /\ files = <<>>
  /\ writes = <<>>
  /\ calls = 0
  /\ log = {}
  /\ local = [p \in Procs |-> Idle]

Init ==
  /\ procs = {"p1"}
  /\ inputs = Sources
  /\ StoreInit
  /\ scrDir = NoDir
  /\ mrf = NoMrf

InitConc ==
  /\ procs \in {{"p1"}, Procs}
  /\ inputs = RacingSources
  /\ StoreInit
  /\ scrDir = NoDir
  /\ mrf = NoMrf

Set(p, upd) == local' = [local EXCEPT ![p] = upd @@ local[p]]

Finish(p, result, upd) ==
  Set(p, upd @@ [pc |-> "done", res |-> result])

\* main calls do_add with a path (main.rs:157).
DoAddCall(p) ==
  /\ p \in procs
  /\ local[p].pc = "idle"
  /\ calls < MaxCalls
  /\ calls' = calls + 1
  /\ \E s \in inputs :
       local' = [local EXCEPT ![p] = [Idle EXCEPT !.pc = "hash", !.src = s,
                                                  !.pre = Snapshot]]
  /\ UNCHANGED <<procs, inputs, dirExists, files, writes, log, scrDir, mrf>>

\* let hash = hash_contents(&path)?  (main.rs:103, 77-100)
HashContents(p) ==
  /\ local[p].pc = "hash"
  /\ LET s == local[p].src
     IN  \/ /\ PathCheck(s.kind) # ""
            /\ Finish(p, Err(PathCheck(s.kind)), <<>>)
         \/ /\ PathCheck(s.kind) = ""
            /\ Finish(p, Err("open"), <<>>)
         \/ /\ PathCheck(s.kind) = ""
            /\ \E cnt \in 0..Len(s.content) :
                 Set(p, [pc |-> "dir", nread |-> cnt,
                         hash |-> ReadLoopDigest(s.content, cnt)])
  /\ UNCHANGED <<procs, inputs, dirExists, files, writes, calls, log, scrDir, mrf>>

\* The extension, get_clippings_dir and the is_dir test (main.rs:105-112).
ClippingsDir(p) ==
  /\ local[p].pc = "dir"
  /\ \/ Finish(p, Err("getting home dir"), <<>>)
     \/ Set(p, [pc |-> IF dirExists THEN "target" ELSE "mkdir",
                extension |-> Extension(local[p].src.name)])
  /\ UNCHANGED <<procs, inputs, dirExists, files, writes, calls, log, scrDir, mrf>>

\* std::fs::create_dir(&clippings_dir) (main.rs:113): fails when the
\* directory exists by now, and may fail for any other reason.
CreateDir(p) ==
  /\ local[p].pc = "mkdir"
  /\ \/ /\ Finish(p, Err("creating clippings directory"), <<>>)
        /\ UNCHANGED dirExists
     \/ /\ ~dirExists
        /\ dirExists' = TRUE
        /\ Set(p, [pc |-> "target"])
  /\ UNCHANGED <<procs, inputs, files, writes, calls, log, scrDir, mrf>>

\* The target path and the existence check (main.rs:115-120).
CheckTarget(p) ==
  /\ local[p].pc = "target"
  /\ LET t == Target(local[p].hash, local[p].extension)
         e == IsFile(files, t)
     IN  Set(p, [pc |-> AfterCheck(e), target |-> t, exists |-> e])
  /\ UNCHANGED <<procs, inputs, dirExists, files, writes, calls, log, scrDir, mrf>>

Written(t) == IF t \in DOMAIN writes THEN writes[t] ELSE 0

\* std::fs::copy(&path, &target)? (main.rs:121): the whole content arrives,
\* or the copy fails before the target is created, or it fails after the
\* target was created and part of the content written.
Copy(p) ==
  /\ local[p].pc = "copy"
  /\ LET t == local[p].target
         c == local[p].src.content
     IN  \/ /\ files' = (t :> c) @@ files
            /\ writes' = (t :> Written(t) + 1) @@ writes
            /\ Set(p, [pc |-> "clip", copied |-> "full"])
         \/ /\ UNCHANGED <<files, writes>>
            /\ Finish(p, Err("copy"), [copied |-> "failed"])
         \/ \E k \in 0..(Len(c) - 1) :
              /\ files' = (t :> SubSeq(c, 1, k)) @@ files
              /\ writes' = (t :> Written(t) + 1) @@ writes
              /\ Finish(p, Err("copy"), [copied |-> "partial"])
  /\ UNCHANGED <<procs, inputs, dirExists, calls, log, scrDir, mrf>>

\* wl-copy with the stripped target, spawned and waited for; then
\* Ok(target) (main.rs:124-129).  The exit status that wait returns is
\* dropped.
Clipboard(p) ==
  /\ local[p].pc = "clip"
  /\ \/ Finish(p, Err("strip_prefix"), <<>>)
     \/ Finish(p, Err("spawn"), [clip |-> "spawn failed"])
     \/ Finish(p, Err("wait"), [clip |-> "wait failed"])
     \/ \E status \in {0, 1} :
          Finish(p, Ok(local[p].target),
                 [clip |-> IF status = 0 THEN "exit 0" ELSE "exit non-zero"])
  /\ UNCHANGED <<procs, inputs, dirExists, files, writes, calls, log, scrDir, mrf>>

\* do_add returns to main (main.rs:157-159).
Return(p) ==
  /\ local[p].pc = "done"
  /\ log' = IF local[p].res.tag = "Ok"
            THEN log \cup {[extension |-> local[p].extension,
                            content |-> local[p].src.content,
                            hash |-> local[p].hash,
                            path |-> local[p].res.path]}
            ELSE log
  /\ local' = [local EXCEPT ![p] = Idle]
  /\ UNCHANGED <<procs, inputs, dirExists, files, writes, calls, scrDir, mrf>>

Next ==
  \E p \in Procs :
    \/ DoAddCall(p)
    \/ HashContents(p)
    \/ ClippingsDir(p)
    \/ CreateDir(p)
    \/ CheckTarget(p)
    \/ Copy(p)
    \/ Clipboard(p)
    \/ Return(p)

Spec == Init /\ [][Next]_vars

SpecConc == InitConc /\ [][Next]_vars

InitMRF ==
  /\ procs = {}
  /\ inputs = {}
  /\ StoreInit
  /\ scrDir \in Directories
  /\ mrf = NoMrf

\* main with --last-screenshot: most_recent_file(&screen_dir) (main.rs:148).
MostRecent ==
  /\ mrf.tag = "none"
  /\ mrf' = MostRecentFile(scrDir)
  /\ UNCHANGED <<procs, inputs, dirExists, files, writes, calls, log, local, scrDir>>

NextMRF == MostRecent

SpecMRF == InitMRF /\ [][NextMRF]_vars

(***************************************************************************)
(* The claims.                                                             *)
(***************************************************************************)
Returned(p) == p \in procs /\ local[p].pc = "done"
ReturnedOk(p) == Returned(p) /\ local[p].res.tag = "Ok"
ReturnedErr(p) == Returned(p) /\ local[p].res.tag = "Err"

\* The call of p wrote nothing to the store.
NoWrite(p) ==
  /\ local[p].copied = "no"
  /\ files = local[p].pre.files
  /\ writes = local[p].pre.writes

StoredObjectsKept ==
  \A n \in DOMAIN files : n \in DOMAIN files' /\ files'[n] = files[n]

\* C2 as stated: a regular file of the clippings directory never changes
\* and is never removed, and a do_add whose target already holds a file
\* copies nothing, leaves the store as it was, and returns Ok with that path.
C2_ExistingTargetSucceeds ==
  /\ [][StoredObjectsKept]_vars
  /\ [](\A p \in Procs :
          (local[p].exists /\ local[p].pc \in {"clip", "done"}) =>
            /\ NoWrite(p)
            /\ local[p].pc = "done" => local[p].res = Ok(local[p].target))

\* C2 amended: a regular file of the clippings directory never changes and
\* is never removed, and a do_add whose target already holds a file copies
\* nothing, leaves the store as it was, and returns Ok with that path
\* unless the clipboard step after it (strip_prefix, spawn or wait) fails.
C2_ExistingTargetUntouched ==
  /\ [][StoredObjectsKept]_vars
  /\ [](\A p \in Procs :
          (local[p].exists /\ local[p].pc \in {"clip", "done"}) =>
            /\ NoWrite(p)
            /\ local[p].pc = "done" =>
                 \/ local[p].res = Ok(local[p].target)
                 \/ /\ local[p].res.tag = "Err"
                    /\ local[p].res.err \in {"strip_prefix", "spawn", "wait"})

C2_Witness ==
  \E p \in Procs :
    /\ ReturnedOk(p)
    /\ local[p].exists
    /\ local[p].target \in DOMAIN files
    /\ local[p].res.path = local[p].target

\* C3: do_add on a path that does not exist returns the "does not exist"
\* error of hash_contents, on a path that is not a regular file its "is
\* not a file" error; in both cases the clippings directory is not
\* created, nothing is written and wl-copy is not run.
C3_NonFileRejected ==
  \A p \in Procs :
    (Returned(p) /\ local[p].src.kind # "file") =>
      /\ local[p].res.tag = "Err"
      /\ local[p].src.kind = "missing" => local[p].res.err = "does not exist"
      /\ local[p].src.kind = "dir" => local[p].res.err = "is not a file"
      /\ dirExists = local[p].pre.dirExists
      /\ NoWrite(p)
      /\ local[p].clip = "none"

C3_Witness ==
  \E p \in Procs :
    /\ ReturnedErr(p)
    /\ local[p].src.kind = "dir"
    /\ local[p].res.err = "is not a file"
    /\ ~dirExists

\* C4: hash_contents returns a digest only when every chunk of the file
\* was read, and no object is copied to a target named by the digest of a
\* part of the source.
C4_ReadFailureReported ==
  \A p \in Procs :
    /\ local[p].hash # <<>> => local[p].nread = Len(local[p].src.content)
    /\ local[p].copied # "no" =>
         FileStem(local[p].target) = Sha512Hex(local[p].src.content)

\* C5: do_add returns Ok only when wl-copy was spawned and exited with
\* status zero, and returns an error when wl-copy fails to spawn or exits
\* with a non-zero status.
C5_ClipboardFailureSurfaced ==
  \A p \in Procs :
    /\ ReturnedOk(p) => local[p].clip = "exit 0"
    /\ (Returned(p) /\ local[p].clip \in {"spawn failed", "exit non-zero"}) =>
         local[p].res.tag = "Err"

\* C6: a do_add that returns an error leaves the store as it was: the
\* clippings directory is not newly created and no object is written.
C6_AllOrNothing ==
  \A p \in Procs :
    ReturnedErr(p) =>
      /\ dirExists = local[p].pre.dirExists
      /\ files = local[p].pre.files

\* The source name is a stem, a '.', and a non-empty extension without '.'.
HasExtension(name, ext) ==
  /\ ext # <<>>
  /\ \A i \in 1..Len(ext) : ext[i] # "."
  /\ Len(name) >= Len(ext) + 2
  /\ SubSeq(name, Len(name) - Len(ext) + 1, Len(name)) = ext
  /\ name[Len(name) - Len(ext)] = "."

Suffixes(name) == {SubSeq(name, i, Len(name)) : i \in 1..(Len(name) + 1)}

\* C7: the path a successful do_add returns is the hex digest, then '.'
\* and the source's extension when the source name has one, and the bare
\* hex digest when it has none.
C7_ExtensionPreserved ==
  \A p \in Procs :
    ReturnedOk(p) =>
      LET name == local[p].src.name
      IN  /\ \A ext \in Suffixes(name) :
               HasExtension(name, ext) =>
                 local[p].res.path = local[p].hash \o <<".">> \o ext
          /\ (~ \E ext \in Suffixes(name) : HasExtension(name, ext)) =>
               local[p].res.path = local[p].hash

C7_Witness ==
  \E p \in Procs :
    /\ ReturnedOk(p)
    /\ local[p].src.name = <<"a", ".", "p">>
    /\ local[p].res.path = local[p].hash \o <<".", "p">>
    /\ Len(local[p].hash) = 2

C9_NameIsDigest ==
  \A n \in DOMAIN files : FileStem(n) = Sha512Hex(files[n])

\* C10: a target is written by two copies only when two processes run
\* do_add; with a single process no target is written twice.
C10_DoubleCopyNeedsTwoProcesses ==
  \A t \in DOMAIN writes : writes[t] >= 2 => procs = Procs

\* Both processes saw the same target absent and both copied to it.
C10_Witness ==
  /\ local["p1"].target = local["p2"].target
  /\ local["p1"].hash = local["p2"].hash
  /\ \A p \in Procs :
       /\ p \in procs
       /\ local[p].pc \in {"clip", "done"}
       /\ ~local[p].exists
       /\ local[p].copied = "full"
  /\ writes[local["p1"].target] = 2
====
